---- MODULE Spec2Model ----
(***************************************************************************)
(* A model of server.py: the credential pool with rotating retry           *)
(* (CredentialPool), the polling engine (fetch_task), the monitor          *)
(* controller (start_monitor / stop_monitor) and the incremental           *)
(* classification step.                                                    *)
(*                                                                         *)
(* asyncio runs every coroutine on one event loop: a coroutine runs         *)
(* without interruption from one `await` that suspends to the next, so      *)
(* each action below is the code between two suspension points.            *)
(* asyncio.CancelledError is a BaseException (Python >= 3.8, which the      *)
(* imported libraries require): no `except Exception` clause catches it.   *)
(***************************************************************************)
EXTENDS Integers, Sequences, FiniteSets, TLC

\* ---------------------------------------------------------------- bounds
\* Largest credential pool the harness and the engine are given.
MaxCreds == 3
\* Distinct error values the remote operation may raise.
MaxErr == 2
\* Distinct values the remote operation may return in the pool harness.
MaxVal == 2
\* Calls of execute_with_retry the pool harness makes on one pool.
MaxCalls == 2
\* Largest comment identifier and longest feed page of the cycle harness.
MaxCycleRpid == 4
MaxCycleLen == 3
\* The engine: largest rpid, longest page of a response, longest working
\* set of a backfill, largest declared total, fetch_task tasks created,
\* stop requests that pass the running check, credentials of a start request.
MaxEngineRpid == 3
MaxPageLen == 2
MaxReplies == 2
MaxCount == 2
MaxTasks == 3
MaxStops == 2
MaxEngineCreds == 2
\* The same for the specification of concurrent requests.
MaxCtlRpid == 1
MaxCtlCount == 1
MaxCtlCreds == 1
\* The history fetch with long responses: longest list of top-level comments
\* of pages of several comments, full pages a sub-comment loop is given.
MaxBackfillTop == 5
MaxSubPages == 2
\* The hub: websockets accepted, broadcast calls.
MaxSockets == 3
MaxBroadcasts == 2
\* The collection: largest rpid, messages of a comment, longest list saved
\* in one call, documents written in all.
MaxSinkRpid == 3
MaxMsg == 2
MaxBatch == 2
MaxWrites == 4

\* ------------------------------------------------------------ constants
max_pages == 100
SubPageSize == 20
SnapshotSize == 20

None == 0
\* The error get_next raises: Exception("No credentials configured").
NoCredentials == 0 - 1

Errors == 1..MaxErr
Values == 1..MaxVal

VARIABLES
    \* --- pool harness: one CredentialPool and one caller of it
    hpool,      \* the pool: [total, iterator]
    hcall,      \* the call in progress: the frame of execute_with_retry
    hlog,       \* the attempts of the current call: <<[cred, kind, val]>>
    hcalls,     \* calls begun on this pool so far
    \* --- cycle harness: one incremental cycle on a given page
    cyH0,       \* last_rpid before the cycle
    cyPage,     \* data['replies'] of the cycle (rpids in feed order)
    cyH,        \* last_rpid after the cycle
    cyNew,      \* new_comments of the cycle (rpids)
    cyBatch,    \* the "new_comments" broadcast: <<data>>, or <<>> if none
    cyDone,     \* the cycle has run
    \* --- monitor_state, the event loop's tasks and the collaborators
    running,            \* monitor_state.running
    task,               \* monitor_state.task: None or a task
    last_rpid,          \* monitor_state.last_rpid
    fetch_sub_comments, \* monitor_state.fetch_sub_comments
    cred_pool,          \* monitor_state.cred_pool: None or a pool
    pools,              \* the CredentialPool objects, by the task of their start
    tasks,              \* the fetch_task tasks: position and locals
    stops,              \* the stop_monitor handlers past their first check
    reply,              \* the last reply sent without suspending: its status
    sink,               \* rpids held by the comments collection
    \* --- hub harness: the ConnectionManager, its clients, one broadcaster
    active_connections, \* manager.active_connections (websockets, by number)
    accepted,           \* websockets accepted so far (the next one is accepted + 1)
    bcast,              \* the broadcast call in progress or last ended
    bcasts,             \* broadcast calls begun so far
    \* --- sink harness: the comments collection of one video
    collection,         \* its documents: [rpid, message, fetched_at]
    utcnow,             \* the clock read by datetime.utcnow()
    latest              \* per rpid: the last document written for it, or NoDocument

poolVars == <<hpool, hcall, hlog, hcalls>>
cycleVars == <<cyH0, cyPage, cyH, cyNew, cyBatch, cyDone>>
monVars == <<running, task, last_rpid, fetch_sub_comments, cred_pool, pools, tasks,
             stops, reply, sink>>
hubVars == <<active_connections, accepted, bcast, bcasts>>
sinkVars == <<collection, utcnow, latest>>
vars == <<poolVars, cycleVars, monVars, hubVars, sinkVars>>

\* ------------------------------------------------------- CredentialPool
\* CredentialPool.__init__: credentials 1..n, a cycle iterator positioned
\* before the first credential (iterator = index of the credential that
\* next() yields, 1-based; 0 for an empty cycle).
CredentialPool(n) == [total |-> n, iterator |-> IF n = 0 THEN 0 ELSE 1]

\* next(self.iterator) of itertools.cycle: the credential yielded.
CycleYield(pool) == pool.iterator

\* The iterator after next(): the cyclic successor.
CycleAdvance(pool) ==
    [pool EXCEPT !.iterator = IF pool.iterator = pool.total THEN 1 ELSE pool.iterator + 1]

\* get_next raises when the pool holds no credentials.
GetNextRaises(pool) == pool.total = 0

\* The frame of one execute_with_retry call.
\*   i          iterations of `for _ in range(self.total)` entered so far
\*   at         "call" (awaiting func), "backoff" (awaiting sleep(0.5)),
\*              "returned", "raised"
\*   cred       the credential of the attempt in flight
\*   last_error the local last_error (None or an error)
\*   out        the value returned or the error raised
Frame(i, at, cred, le, out) ==
    [i |-> i, at |-> at, cred |-> cred, last_error |-> le, out |-> out]

IdleFrame == Frame(0, "idle", None, None, None)

\* The code after the for loop: raise last_error if set, else fall off the
\* end of the function (return None).
AfterLoop(f) ==
    IF f.last_error # None
    THEN Frame(f.i, "raised", None, f.last_error, f.last_error)
    ELSE Frame(f.i, "returned", None, f.last_error, None)

\* Whether the for loop has another iteration after i iterations.
LoopHasNext(pool, i) == i < pool.total

\* One pass through the loop head after i completed iterations: either the
\* next iteration starts (get_next, then func is awaited) or the loop ends.
\* Gives <<frame, pool>>.
LoopHead(pool, f) ==
    IF LoopHasNext(pool, f.i)
    THEN IF GetNextRaises(pool)
         THEN <<Frame(f.i + 1, "raised", None, f.last_error, NoCredentials), pool>>
         ELSE <<Frame(f.i + 1, "call", CycleYield(pool), f.last_error, None),
                CycleAdvance(pool)>>
    ELSE <<AfterLoop(f), pool>>

\* A variant in which every call starts its own rotation at the first
\* credential.
MutExecBeginRestarts(pool) ==
    LoopHead([pool EXCEPT !.iterator = IF pool.total = 0 THEN 0 ELSE 1],
             Frame(0, "call", None, None, None))

\* execute_with_retry up to its first suspension point.
ExecBegin(pool) == LoopHead(pool, Frame(0, "call", None, None, None))

\* `return await func(...)` succeeded with value v.
MutOnSuccessKeepsRotating(f, v) == Frame(f.i, "backoff", f.cred, f.last_error, v)

OnSuccess(f, v) == Frame(f.i, "returned", f.cred, f.last_error, v)

\* except (ResponseCodeException, ApiException): record, then sleep(0.5).
MutOnRetryableKeepsFirst(f, e) ==
    Frame(f.i, "backoff", f.cred, IF f.last_error = None THEN e ELSE f.last_error, None)

OnRetryable(f, e) == Frame(f.i, "backoff", f.cred, e, None)

\* except Exception: raise e.
MutOnOtherRetries(f, e) == Frame(f.i, "backoff", f.cred, e, None)

OnOther(f, e) == Frame(f.i, "raised", f.cred, f.last_error, e)

\* The attempt in flight ends with outcome [kind, val].
OnOutcome(f, o) ==
    CASE o.kind = "ok" -> OnSuccess(f, o.val)
      [] o.kind = "retryable" -> OnRetryable(f, o.val)
      [] OTHER -> OnOther(f, o.val)

Outcomes ==
    [kind : {"ok"}, val : Values] \cup [kind : {"retryable", "other"}, val : Errors]

FrameDone(f) == f.at \in {"returned", "raised"}

\* The pool harness before any use (and in the specifications without it).
ParkedPool ==
    /\ hpool = CredentialPool(0)
    /\ hcall = IdleFrame
    /\ hlog = <<>>
    /\ hcalls = 0

\* ------------------------------------------- the incremental cycle body
\* A comment is modelled by its rpid; a page is a sequence of rpids.
RECURSIVE SeqsUpTo(_, _)
SeqsUpTo(S, n) ==
    IF n = 0 THEN {<<>>}
    ELSE LET shorter == SeqsUpTo(S, n - 1) IN
         shorter \cup {Append(q, x) : q \in {r \in shorter : Len(r) = n - 1}, x \in S}

Max2(a, b) == IF a >= b THEN a ELSE b

\* max(c['rpid'] for c in seq), seq non-empty.
MaxRpid(seq) == CHOOSE m \in {seq[k] : k \in 1..Len(seq)} : \A k \in 1..Len(seq) : seq[k] <= m

\* list(reversed(seq)).
Reversed(seq) == [k \in 1..Len(seq) |-> seq[Len(seq) + 1 - k]]

\* The scan `for r in replies: if r['rpid'] > last_rpid: append else: break`.
RECURSIVE MutNewCommentsNoBreak(_, _)
MutNewCommentsNoBreak(replies, last) ==
    IF replies = <<>> THEN <<>>
    ELSE IF Head(replies) > last
         THEN <<Head(replies)>> \o MutNewCommentsNoBreak(Tail(replies), last)
         ELSE MutNewCommentsNoBreak(Tail(replies), last)

RECURSIVE NewComments(_, _)
NewComments(replies, last) ==
    IF replies = <<>> THEN <<>>
    ELSE IF Head(replies) > last
         THEN <<Head(replies)>> \o NewComments(Tail(replies), last)
         ELSE <<>>

\* `monitor_state.last_rpid = max(monitor_state.last_rpid, max_id)` under
\* `if new_comments:`.
MutAdvanceToPageTail(last, replies, new) ==
    IF new = <<>> THEN last ELSE replies[Len(replies)]

AdvanceLastRpid(last, replies, new) ==
    IF new = <<>> THEN last ELSE Max2(last, MaxRpid(new))

\* The data of the "new_comments" broadcast of the cycle.
BroadcastData(new) == Reversed(new)

\* ------------------------------------------------- the monitor's state
Rpids == 1..MaxEngineRpid
TaskIds == 1..MaxTasks
StopIds == 1..MaxStops

\* The remote data of a comment, fixed per rpid: its creation time (equal
\* for some comments, not monotone in the rpid) and its reply count.
CTime(r) == IF r % 2 = 0 THEN r \div 2 ELSE 2 + r \div 4
RCount(r) == IF r = 1 THEN 1 ELSE 0

\* Sequences without a repeated rpid: one response lists a comment once.
Distinct(q) == \A a, b \in 1..Len(q) : a # b => q[a] # q[b]
Pages == {q \in SeqsUpTo(Rpids, MaxPageLen) : Distinct(q)}

\* Rpids of a sequence of comments.
RpidSet(q) == {q[k] : k \in 1..Len(q)}

\* The locals of a fetch_task task and its position.
\*   pc          "none" (not created), "created" (not yet run), the pending
\*               await otherwise: "info", "page", "sub", "feed" (inside
\*               execute_with_retry, see f), "bc_*" (inside
\*               manager.broadcast), "*_sleep" (asyncio.sleep), "done"
\*   cancel      task.cancel() was called and CancelledError is not yet thrown
\*   pool        the local `pool`
\*   f           the frame of the execute_with_retry call in progress
\*   all_replies, page, sub_page    the locals of those names
\*   ntop, idx   the copy all_replies[:] being iterated: its length and the
\*               position of top_comment
\*   replies, new    the locals replies and new_comments of the cycle
\*   delivered   how often each rpid was broadcast in a "new_comments"
\*               event by this task (counted up to 2)
\*   infoFail    the attempts of the get_video_info call that ended with every
\*               credential failing (0: it did not)
\*   pageFail    the page loop of the history fetch ended by an exception
\*               (until the task enters the incremental loop)
\*   cancelled   the task ended by CancelledError
NoTask ==
    [pc |-> "none", cancel |-> FALSE, pool |-> None, f |-> IdleFrame,
     all_replies |-> <<>>, page |-> 0, sub_page |-> 0, ntop |-> 0, idx |-> 0,
     replies |-> <<>>, new |-> <<>>, delivered |-> [r \in Rpids |-> 0],
     infoFail |-> 0, pageFail |-> FALSE, cancelled |-> FALSE]

\* A stop_monitor handler: "none", "await_task" (await monitor_state.task),
\* "bc_stopped" (inside manager.broadcast), "returned"; the task it awaits;
\* whether that task was in the inter-cycle sleep when stop was called.
NoStop == [pc |-> "none", target |-> None, midSleep |-> FALSE]

NoReply == "none"

\* MonitorState.__init__, no task, no handler, an empty collection.
ParkedMonitor ==
    /\ running = FALSE
    /\ task = None
    /\ last_rpid = 0
    /\ fetch_sub_comments = TRUE
    /\ cred_pool = None
    /\ pools = [t \in TaskIds |-> CredentialPool(0)]
    /\ tasks = [t \in TaskIds |-> NoTask]
    /\ stops = [h \in StopIds |-> NoStop]
    /\ reply = NoReply
    /\ sink = {}

\* ------------------------------------------------- the ConnectionManager
Sockets == 1..MaxSockets

\* A call of manager.broadcast: "idle" (none yet), "send" (suspended in
\* connection.send_json), "returned", "raised" (an exception left the call).
\*   idx     items the list iterator of the for loop has produced
\*   conn    the loop variable `connection`
\*   start   the websockets registered when the call began
\*   gone    the websockets disconnected while the call was in progress
\*   sent    how often send_json was called on each websocket (up to 2)
\*   failed  the websockets whose send_json raised
NoBroadcast ==
    [pc |-> "idle", idx |-> 0, conn |-> None, start |-> {}, gone |-> {},
     sent |-> [ws \in Sockets |-> 0], failed |-> {}]

\* ConnectionManager.__init__, no client, no broadcast.
ParkedHub ==
    /\ active_connections = <<>>
    /\ accepted = 0
    /\ bcast = NoBroadcast
    /\ bcasts = 0

\* ------------------------------------------------- the comments collection
\* A comment as save_comments_to_mongodb reads it: its rpid and its content.
Comments == [rpid : 1..MaxSinkRpid, message : 1..MaxMsg]

\* No document was written for an rpid.
NoDocument == [rpid |-> None, message |-> None, fetched_at |-> None]

\* An empty collection, a clock, no document written yet.
ParkedSink ==
    /\ collection = {}
    /\ utcnow = 1
    /\ latest = [r \in 1..MaxSinkRpid |-> NoDocument]

\* ------------------------------------------------------ cycle harness
CyclePages == SeqsUpTo(1..MaxCycleRpid, MaxCycleLen)

\* The cycle harness before any use (and in the specifications without it).
ParkedCycle ==
    /\ cyH0 = 0
    /\ cyPage = <<>>
    /\ cyH = 0
    /\ cyNew = <<>>
    /\ cyBatch = <<>>
    /\ cyDone = FALSE

InitCycle ==
    /\ ParkedPool
    /\ ParkedMonitor
    /\ ParkedHub
    /\ ParkedSink
    /\ \/ cyH0 \in 0..MaxCycleRpid /\ cyPage \in CyclePages
       \/ cyH0 = 100 /\ cyPage = <<108, 107, 106, 90>>
    /\ cyH = cyH0
    /\ cyNew = <<>>
    /\ cyBatch = <<>>
    /\ cyDone = FALSE

\* One pass of the loop body after the fetch returned cyPage.
CycleRun ==
    /\ ~cyDone
    /\ LET new == NewComments(cyPage, cyH0) IN
         /\ cyNew' = new
         /\ cyH' = AdvanceLastRpid(cyH0, cyPage, new)
         /\ cyBatch' = IF new = <<>> THEN <<>> ELSE <<BroadcastData(new)>>
    /\ cyDone' = TRUE
    /\ UNCHANGED <<cyH0, cyPage>>
    /\ UNCHANGED <<poolVars, monVars, hubVars, sinkVars>>

NextCycle == CycleRun

SpecCycle == InitCycle /\ [][NextCycle]_vars

\* ------------------------------------------------------- pool harness
InitPool ==
    /\ ParkedCycle
    /\ ParkedMonitor
    /\ ParkedHub
    /\ ParkedSink
    /\ hpool \in {CredentialPool(n) : n \in 0..MaxCreds}
    /\ hcall = IdleFrame
    /\ hlog = <<>>
    /\ hcalls = 0

\* A caller invokes pool.execute_with_retry(func).
HarnessCall ==
    /\ hcall.at = "idle" \/ FrameDone(hcall)
    /\ hcalls < MaxCalls
    /\ LET r == ExecBegin(hpool) IN
         /\ hcall' = r[1]
         /\ hpool' = r[2]
    /\ hlog' = <<>>
    /\ hcalls' = hcalls + 1
    /\ UNCHANGED <<cycleVars, monVars, hubVars, sinkVars>>

\* func, awaited with the credential of the attempt, returns or raises.
HarnessAttemptEnds(o) ==
    /\ hcall.at = "call"
    /\ hcall' = OnOutcome(hcall, o)
    /\ hlog' = Append(hlog, [cred |-> hcall.cred, kind |-> o.kind, val |-> o.val])
    /\ UNCHANGED <<hpool, hcalls>>
    /\ UNCHANGED <<cycleVars, monVars, hubVars, sinkVars>>

\* asyncio.sleep(0.5) returns: the loop goes on.
HarnessBackoffEnds ==
    /\ hcall.at = "backoff"
    /\ LET r == LoopHead(hpool, hcall) IN
         /\ hcall' = r[1]
         /\ hpool' = r[2]
    /\ UNCHANGED <<hlog, hcalls>>
    /\ UNCHANGED <<cycleVars, monVars, hubVars, sinkVars>>

NextPool ==
    \/ HarnessCall
    \/ \E o \in Outcomes : HarnessAttemptEnds(o)
    \/ HarnessBackoffEnds

SpecPool == InitPool /\ [][NextPool]_vars

\* ------------------------------------------------------------ fetch_task
\* The state the synchronous code of a task reads and writes, as one value;
\* an operator below is a stretch of code run without suspension.
World ==
    [running |-> running, task |-> task, last_rpid |-> last_rpid,
     fetch_sub_comments |-> fetch_sub_comments, cred_pool |-> cred_pool,
     pools |-> pools, tasks |-> tasks, sink |-> sink]

Apply(w) ==
    /\ running' = w.running
    /\ task' = w.task
    /\ last_rpid' = w.last_rpid
    /\ fetch_sub_comments' = w.fetch_sub_comments
    /\ cred_pool' = w.cred_pool
    /\ pools' = w.pools
    /\ tasks' = w.tasks
    /\ sink' = w.sink

\* The task is suspended at the await named pc.
At(w, t, pc) == [w EXCEPT !.tasks[t].pc = pc, !.tasks[t].f = IdleFrame]

\* The coroutine ends (by return, or by CancelledError): the locals are gone,
\* and so is its pool unless another task holds it or a task not yet run
\* will read it from monitor_state.cred_pool.
Finish(w, t, byCancel) ==
    LET p == w.tasks[t].pool
        held == \/ \E u \in TaskIds \ {t} :
                      w.tasks[u].pc \notin {"none", "done"}
                        /\ (w.tasks[u].pool = p
                              \/ (w.tasks[u].pc = "created" /\ w.cred_pool = p))
    IN [w EXCEPT !.tasks[t] = [NoTask EXCEPT !.pc = "done",
                                             !.infoFail = w.tasks[t].infoFail,
                                             !.cancelled = byCancel],
                 !.pools = IF p = None \/ held THEN @
                           ELSE [@ EXCEPT ![p] = CredentialPool(0)]]

\* `await pool.execute_with_retry(...)` up to the first await of func; the
\* pool of a task holds a credential (the check at the top of fetch_task).
BeginCall(w, t, site) ==
    LET r == ExecBegin(w.pools[w.tasks[t].pool]) IN
    [w EXCEPT !.tasks[t].pc = site, !.tasks[t].f = r[1],
              !.pools[w.tasks[t].pool] = r[2]]

\* The outcome of save_comments_to_mongodb the environment decides: whether
\* create_index raises (the server is unreachable) and the comments whose
\* try block raises inside the loop, which `except Exception: continue`
\* skips (the documents of the others are written).
SaveOutcomes == [raises : BOOLEAN, skipped : SUBSET Rpids]

SaveRaises(items, sv) == items # <<>> /\ sv.raises

\* The collection after save_comments_to_mongodb(items, ...) returned.
Saved(coll, items, sv) == coll \cup (RpidSet(items) \ sv.skipped)

\* all_replies.sort(key=lambda x: x['ctime']): stable, ascending.
SortByCTime(q) ==
    LET n == Len(q)
        pos == [i \in 1..n |->
                   Cardinality({j \in 1..n : \/ CTime(q[j]) < CTime(q[i])
                                             \/ CTime(q[j]) = CTime(q[i]) /\ j <= i})]
    IN [p \in 1..n |-> q[CHOOSE i \in 1..n : pos[i] = p]]

\* The sort key 'time' of initial_comments: '%Y-%m-%d %H:%M:%S' of the ctime,
\* whose string order is the order of the ctime.
TimeKey(r) == CTime(r)

\* sorted(initial_comments, key=lambda x: x['time'], reverse=True): stable,
\* descending.
SortByTimeDesc(q) ==
    LET n == Len(q)
        pos == [i \in 1..n |->
                   Cardinality({j \in 1..n : \/ TimeKey(q[j]) > TimeKey(q[i])
                                             \/ TimeKey(q[j]) = TimeKey(q[i]) /\ j <= i})]
    IN [p \in 1..n |-> q[CHOOSE i \in 1..n : pos[i] = p]]

\* A variant that keeps the 20 oldest comments.
MutLatestKeepsOldest(sorted) ==
    LET d == SortByTimeDesc(sorted)
        n == IF Len(d) < SnapshotSize THEN Len(d) ELSE SnapshotSize
    IN Reversed(SubSeq(d, Len(d) - n + 1, Len(d)))

\* latest_comments = list(reversed(sorted(...)[:20])).
LatestComments(sorted) ==
    LET d == SortByTimeDesc(sorted) IN
    Reversed(SubSeq(d, 1, IF Len(d) < SnapshotSize THEN Len(d) ELSE SnapshotSize))

\* The task hands a "new_comments" event with these comments to the hub.
Deliver(w, t, data) ==
    [w EXCEPT !.tasks[t].delivered =
        [r \in Rpids |->
            LET n == @[r] + Cardinality({k \in 1..Len(data) : data[k] = r}) IN
            IF n > 2 THEN 2 ELSE n]]

\* `while monitor_state.running:` and the call of the loop body.
IncLoopHead(w, t) ==
    IF w.running THEN BeginCall(w, t, "feed") ELSE Finish(w, t, FALSE)

\* Lines 301-337: the end of the history fetch.
Finalize(w, t, sv) ==
    LET all == w.tasks[t].all_replies IN
    IF all # <<>>
    THEN LET sorted == SortByCTime(all)
             w1 == [w EXCEPT !.last_rpid = MaxRpid(sorted),
                             !.tasks[t].all_replies = sorted]
         IN IF SaveRaises(sorted, sv)
            THEN At(w1, t, "bc_error")
            ELSE At(Deliver([w1 EXCEPT !.sink = Saved(@, sorted, sv)],
                            t, LatestComments(sorted)),
                    t, "bc_snapshot")
    ELSE At([w EXCEPT !.last_rpid = 0], t, "bc_nohistory")

\* `for top_comment in all_replies[:]` from position `from` on: the next
\* comment with rcount > 0 starts its sub-page loop; without one the loop ends.
SubLoopNext(w, t, from, sv) ==
    LET all == w.tasks[t].all_replies
        cand == {j \in from..w.tasks[t].ntop : RCount(all[j]) > 0}
    IN IF cand = {}
       THEN Finalize(w, t, sv)
       ELSE LET j == CHOOSE a \in cand : \A b \in cand : a <= b IN
            BeginCall([w EXCEPT !.tasks[t].idx = j, !.tasks[t].sub_page = 1], t, "sub")

\* Line 260, after the page loop.
AfterPages(w, t, sv) ==
    IF w.fetch_sub_comments THEN At(w, t, "bc_subs") ELSE Finalize(w, t, sv)

\* `while page <= max_pages:` and the call of the loop body.
PageLoopHead(w, t, sv) ==
    IF w.tasks[t].page <= max_pages THEN BeginCall(w, t, "page") ELSE AfterPages(w, t, sv)

\* execute_with_retry raised an Exception (or returned None, on which the
\* next subscript or .get raises): the except clause around the call.
MutOnRaisedInfoLikePage(w, t, sv) ==
    LET site == w.tasks[t].pc IN
    CASE site \in {"info", "page"} -> AfterPages(At(w, t, "page"), t, sv)
      [] site = "sub" -> SubLoopNext(At(w, t, "sub"), t, w.tasks[t].idx + 1, sv)
      [] OTHER -> At(w, t, "bc_warning")

\* A variant in which an error of the incremental fetch ends the session.
MutOnRaisedFeedFatal(w, t, sv) ==
    LET site == w.tasks[t].pc IN
    CASE site = "info" -> At(w, t, "bc_error")
      [] site = "page" -> AfterPages(At(w, t, "page"), t, sv)
      [] site = "sub" -> SubLoopNext(At(w, t, "sub"), t, w.tasks[t].idx + 1, sv)
      [] OTHER -> At(w, t, "bc_error")

\* A variant in which an error of a page of the history fetch ends the
\* session like an error of get_video_info.
MutOnRaisedPageFatal(w, t, sv) ==
    LET site == w.tasks[t].pc IN
    CASE site \in {"info", "page"} -> At(w, t, "bc_error")
      [] site = "sub" -> SubLoopNext(At(w, t, "sub"), t, w.tasks[t].idx + 1, sv)
      [] OTHER -> At(w, t, "bc_warning")

OnRaised(w, t, sv) ==
    LET site == w.tasks[t].pc IN
    CASE site = "info" -> At(w, t, "bc_error")
      [] site = "page" -> AfterPages(At(w, t, "page"), t, sv)
      [] site = "sub" -> SubLoopNext(At(w, t, "sub"), t, w.tasks[t].idx + 1, sv)
      [] OTHER -> At(w, t, "bc_warning")

Sites == {"info", "page", "sub", "feed"}
BroadcastPcs == {"bc_nopool", "bc_clear", "bc_connected", "bc_loading", "bc_subs",
                 "bc_snapshot", "bc_saved", "bc_nohistory", "bc_error", "bc_new",
                 "bc_warning"}
SleepPcs == {"page_sleep", "sub_sleep", "cycle_sleep"}

\* The task can take a step of its own: it exists, has not ended and no
\* cancellation is pending.
Runnable(t) == tasks[t].pc \notin {"none", "done"} /\ ~tasks[t].cancel

AwaitingFunc(t) == Runnable(t) /\ tasks[t].pc \in Sites /\ tasks[t].f.at = "call"

\* Lines 185-203: the first step of the task.
TaskFirstStep(t) ==
    /\ Runnable(t)
    /\ tasks[t].pc = "created"
    /\ LET w == [World EXCEPT !.tasks[t].pool = cred_pool] IN
       Apply(IF cred_pool = None \/ pools[cred_pool].total = 0
             THEN At(w, t, "bc_nopool")
             ELSE BeginCall(w, t, "info"))
    /\ UNCHANGED <<stops, reply, poolVars, cycleVars, hubVars, sinkVars>>

\* The awaited func raises ResponseCodeException or ApiException.
AttemptRetryable(t) ==
    /\ AwaitingFunc(t)
    /\ tasks' = [tasks EXCEPT ![t].f = OnOutcome(@, [kind |-> "retryable", val |-> 1])]
    /\ UNCHANGED <<running, task, last_rpid, fetch_sub_comments, cred_pool, pools,
                   stops, reply, sink, poolVars, cycleVars, hubVars, sinkVars>>

\* The awaited func raises another Exception.
AttemptOther(t, sv) ==
    /\ AwaitingFunc(t)
    /\ Apply(OnRaised([World EXCEPT !.tasks[t].f = OnOutcome(@, [kind |-> "other", val |-> 1]),
                                     !.tasks[t].pageFail = (tasks[t].pc = "page")],
                      t, sv))
    /\ UNCHANGED <<stops, reply, poolVars, cycleVars, hubVars, sinkVars>>

\* asyncio.sleep(0.5) of execute_with_retry returns.
BackoffEnds(t, sv) ==
    /\ Runnable(t)
    /\ tasks[t].pc \in Sites
    /\ tasks[t].f.at = "backoff"
    /\ LET r == LoopHead(pools[tasks[t].pool], tasks[t].f)
           w == [World EXCEPT !.tasks[t].f = r[1], !.pools[tasks[t].pool] = r[2]]
       IN Apply(IF r[1].at = "call" THEN w
                ELSE OnRaised([w EXCEPT !.tasks[t].infoFail =
                                  IF tasks[t].pc = "info" /\ r[1].at = "raised"
                                  THEN r[1].i ELSE 0,
                                        !.tasks[t].pageFail = (tasks[t].pc = "page")],
                              t, sv))
    /\ UNCHANGED <<stops, reply, poolVars, cycleVars, hubVars, sinkVars>>

\* get_video_info returns: lines 205-209.
InfoReturns(t) ==
    /\ AwaitingFunc(t)
    /\ tasks[t].pc = "info"
    /\ Apply(At(World, t, "bc_clear"))
    /\ UNCHANGED <<stops, reply, poolVars, cycleVars, hubVars, sinkVars>>

\* comment.get_comments returns a page: lines 236-253.
PageReturns(t, replies, count, sv) ==
    /\ AwaitingFunc(t)
    /\ tasks[t].pc = "page"
    /\ LET w == At(World, t, "page") IN
       Apply(IF replies = <<>>
             THEN AfterPages(w, t, sv)
             ELSE LET w1 == [w EXCEPT !.tasks[t].all_replies = @ \o replies] IN
                  IF Len(w1.tasks[t].all_replies) >= count
                  THEN AfterPages(w1, t, sv)
                  ELSE At([w1 EXCEPT !.tasks[t].page = @ + 1], t, "page_sleep"))
    /\ UNCHANGED <<stops, reply, poolVars, cycleVars, hubVars, sinkVars>>

\* get_sub_comments returns a page: lines 286-296.
SubReturns(t, sub_list, sv) ==
    /\ AwaitingFunc(t)
    /\ tasks[t].pc = "sub"
    /\ LET w == At(World, t, "sub") IN
       Apply(IF sub_list = <<>>
             THEN SubLoopNext(w, t, tasks[t].idx + 1, sv)
             ELSE LET w1 == [w EXCEPT !.tasks[t].all_replies = @ \o sub_list] IN
                  IF Len(sub_list) < SubPageSize
                  THEN SubLoopNext(w1, t, tasks[t].idx + 1, sv)
                  ELSE At([w1 EXCEPT !.tasks[t].sub_page = @ + 1], t, "sub_sleep"))
    /\ UNCHANGED <<stops, reply, poolVars, cycleVars, hubVars, sinkVars>>

\* comment.get_comments_lazy returns: lines 358-379, up to the broadcast.
FeedReturns(t, replies) ==
    /\ AwaitingFunc(t)
    /\ tasks[t].pc = "feed"
    /\ LET new == NewComments(replies, last_rpid) IN
       Apply(IF new # <<>>
             THEN At(Deliver([World EXCEPT
                                !.last_rpid = AdvanceLastRpid(last_rpid, replies, new),
                                !.tasks[t].replies = replies,
                                !.tasks[t].new = new],
                             t, BroadcastData(new)),
                     t, "bc_new")
             ELSE At(World, t, "cycle_sleep"))
    /\ UNCHANGED <<stops, reply, poolVars, cycleVars, hubVars, sinkVars>>

\* to_save of lines 385-389.
ToSave(replies, new) == SelectSeq(replies, LAMBDA r : r \in RpidSet(new))

\* manager.broadcast returns to the task: the code up to the next await.
BroadcastEnds(t, sv) ==
    /\ Runnable(t)
    /\ tasks[t].pc \in BroadcastPcs
    /\ LET pc == tasks[t].pc
           w == World
       IN Apply(
            CASE pc = "bc_nopool" -> Finish(w, t, FALSE)
              [] pc = "bc_clear" -> At(w, t, "bc_connected")
              [] pc = "bc_connected" -> At(w, t, "bc_loading")
              [] pc = "bc_loading" ->
                   PageLoopHead([w EXCEPT !.tasks[t].all_replies = <<>>,
                                          !.tasks[t].page = 1], t, sv)
              [] pc = "bc_subs" ->
                   SubLoopNext([w EXCEPT !.tasks[t].ntop = Len(w.tasks[t].all_replies)],
                               t, 1, sv)
              [] pc = "bc_snapshot" -> At(w, t, "bc_saved")
              [] pc \in {"bc_saved", "bc_nohistory"} ->
                   \* all_replies, page, ... are not read again
                   IncLoopHead([w EXCEPT !.tasks[t].all_replies = <<>>,
                                         !.tasks[t].page = 0, !.tasks[t].sub_page = 0,
                                         !.tasks[t].ntop = 0, !.tasks[t].idx = 0,
                                         !.tasks[t].pageFail = FALSE], t)
              [] pc = "bc_error" -> Finish([w EXCEPT !.running = FALSE], t, FALSE)
              [] pc = "bc_new" ->
                   LET ts == ToSave(w.tasks[t].replies, w.tasks[t].new)
                       w1 == [w EXCEPT !.tasks[t].replies = <<>>, !.tasks[t].new = <<>>]
                   IN IF SaveRaises(ts, sv)
                      THEN At(w1, t, "bc_warning")
                      ELSE At([w1 EXCEPT !.sink = Saved(@, ts, sv)], t, "cycle_sleep")
              [] OTHER -> At(w, t, "cycle_sleep"))
    /\ UNCHANGED <<stops, reply, poolVars, cycleVars, hubVars, sinkVars>>

\* asyncio.sleep returns to the task.
SleepEnds(t, sv) ==
    /\ Runnable(t)
    /\ tasks[t].pc \in SleepPcs
    /\ LET pc == tasks[t].pc IN
       Apply(CASE pc = "page_sleep" -> PageLoopHead(World, t, sv)
               [] pc = "sub_sleep" -> BeginCall(World, t, "sub")
               [] OTHER -> IncLoopHead(World, t))
    /\ UNCHANGED <<stops, reply, poolVars, cycleVars, hubVars, sinkVars>>

\* CancelledError is thrown into the task at its pending await (or before
\* its first step); nothing in fetch_task, execute_with_retry or broadcast
\* catches it.
TaskCancelled(t) ==
    /\ tasks[t].pc \notin {"none", "done"}
    /\ tasks[t].cancel
    /\ Apply(Finish(World, t, TRUE))
    /\ UNCHANGED <<stops, reply, poolVars, cycleVars, hubVars, sinkVars>>

\* --------------------------------------------- start_monitor, stop_monitor
\* POST /api/start with n cookies and fetch_sub_comments = fsc. The handler
\* has no await: it is one step.
StartMonitor(n, fsc) ==
    /\ UNCHANGED <<stops, poolVars, cycleVars, hubVars, sinkVars>>
    /\ IF running
       THEN /\ reply' = "already_running"
            /\ UNCHANGED <<running, task, last_rpid, fetch_sub_comments, cred_pool,
                           pools, tasks, sink>>
       ELSE IF n = 0
       THEN /\ reply' = "error"
            /\ UNCHANGED <<running, task, last_rpid, fetch_sub_comments, cred_pool,
                           pools, tasks, sink>>
       ELSE /\ \E t \in TaskIds : tasks[t].pc = "none"
            /\ LET t == CHOOSE a \in TaskIds :
                            tasks[a].pc = "none" /\ \A b \in 1..(a - 1) : tasks[b].pc # "none"
               IN /\ cred_pool' = t
                  /\ pools' = [pools EXCEPT ![t] = CredentialPool(n)]
                  /\ fetch_sub_comments' = fsc
                  /\ running' = TRUE
                  /\ tasks' = [tasks EXCEPT ![t].pc = "created"]
                  /\ task' = t
            /\ reply' = "started"
            /\ UNCHANGED <<last_rpid, sink>>

\* task.cancel(): a request unless the task is done.
Cancel(ts, t) == IF ts[t].pc = "done" THEN ts ELSE [ts EXCEPT ![t].cancel = TRUE]

\* POST /api/stop, up to its first await that suspends.
StopMonitor(h) ==
    /\ stops[h].pc = "none"
    /\ \A g \in 1..(h - 1) : stops[g].pc # "none"
    /\ UNCHANGED <<last_rpid, fetch_sub_comments, cred_pool, pools, sink, poolVars,
                   cycleVars, hubVars, sinkVars>>
    /\ IF ~running
       THEN /\ reply' = "not_running"
            /\ UNCHANGED <<running, task, tasks, stops>>
       ELSE /\ running' = FALSE
            /\ reply' = reply
            /\ IF task = None
               THEN /\ stops' = [stops EXCEPT ![h].pc = "bc_stopped"]
                    /\ UNCHANGED <<task, tasks>>
               ELSE /\ tasks' = Cancel(tasks, task)
                    /\ IF tasks[task].pc = "done"
                       THEN \* awaiting a finished task does not suspend
                            /\ task' = None
                            /\ stops' = [stops EXCEPT ![h].pc = "bc_stopped"]
                       ELSE /\ task' = task
                            /\ stops' = [stops EXCEPT ![h] =
                                   [pc |-> "await_task", target |-> task,
                                    midSleep |-> (tasks[task].pc = "cycle_sleep")]]

\* The awaited task has ended: lines 444-448.
StopResumes(h) ==
    /\ stops[h].pc = "await_task"
    /\ tasks[stops[h].target].pc = "done"
    /\ task' = None
    /\ stops' = [stops EXCEPT ![h].pc = "bc_stopped"]
    /\ UNCHANGED <<running, last_rpid, fetch_sub_comments, cred_pool, pools, tasks,
                   reply, sink, poolVars, cycleVars, hubVars, sinkVars>>

\* manager.broadcast returns to the handler, which returns "stopped".
StopReturns(h) ==
    /\ stops[h].pc = "bc_stopped"
    /\ stops' = [stops EXCEPT ![h].pc = "returned"]
    /\ UNCHANGED <<running, task, last_rpid, fetch_sub_comments, cred_pool, pools,
                   tasks, reply, sink, poolVars, cycleVars, hubVars, sinkVars>>

\* ------------------------------------------------------ the monitor
Init ==
    /\ ParkedPool
    /\ ParkedCycle
    /\ ParkedMonitor
    /\ ParkedHub
    /\ ParkedSink

\* The start and stop requests of any number of clients (all asking for
\* sub-comments) and the tasks they create, in every interleaving; the
\* remote source answers with small pages.
\* The response keeps the working set of the task within the bound.
Fits(t, q) == Len(tasks[t].all_replies) + Len(q) <= MaxReplies

CtlPages == {q \in SeqsUpTo(1..MaxCtlRpid, 1) : Distinct(q)}
CtlCounts == 0..MaxCtlCount
CtlSaves == {sv \in SaveOutcomes : sv.skipped = {}}

Next ==
    \/ \E n \in 0..MaxCtlCreds : StartMonitor(n, TRUE)
    \/ \E h \in StopIds : StopMonitor(h)
    \/ \E h \in StopIds : StopResumes(h)
    \/ \E h \in StopIds : StopReturns(h)
    \/ \E t \in TaskIds : TaskFirstStep(t)
    \/ \E t \in TaskIds : AttemptRetryable(t)
    \/ \E t \in TaskIds, sv \in CtlSaves : AttemptOther(t, sv)
    \/ \E t \in TaskIds, sv \in CtlSaves : BackoffEnds(t, sv)
    \/ \E t \in TaskIds : InfoReturns(t)
    \/ \E t \in TaskIds, q \in CtlPages, c \in CtlCounts, sv \in CtlSaves :
          Fits(t, q) /\ PageReturns(t, q, c, sv)
    \/ \E t \in TaskIds, q \in CtlPages, sv \in CtlSaves :
          Fits(t, q) /\ SubReturns(t, q, sv)
    \/ \E t \in TaskIds, q \in CtlPages : FeedReturns(t, q)
    \/ \E t \in TaskIds, sv \in CtlSaves : BroadcastEnds(t, sv)
    \/ \E t \in TaskIds, sv \in CtlSaves : SleepEnds(t, sv)
    \/ \E t \in TaskIds : TaskCancelled(t)

Spec == Init /\ [][Next]_vars

\* One monitoring session, and the session started after it when it failed
\* to initialize: a start request is accepted once, and a second time after
\* the first task ended on a failed get_video_info; one stop request; a
\* remote source that answers with any page up to the bounds; a collection
\* that fails as a whole, takes every document, or every one but comment 1's.
Counts == 0..MaxCount
SessionIds == 1..2
SessionSaves ==
    {sv \in SaveOutcomes : sv.skipped \in {{}, {1}} /\ (sv.raises => sv.skipped = {})}

NextSession ==
    \/ \E n \in 0..MaxEngineCreds, fsc \in BOOLEAN :
          /\ \/ running
             \/ n = 0
             \/ tasks[1].pc = "none"
             \/ tasks[1].pc = "done" /\ tasks[1].infoFail > 0 /\ tasks[2].pc = "none"
          /\ StartMonitor(n, fsc)
    \/ StopMonitor(1)
    \/ StopResumes(1)
    \/ StopReturns(1)
    \/ \E t \in SessionIds : TaskFirstStep(t)
    \/ \E t \in SessionIds : AttemptRetryable(t)
    \/ \E t \in SessionIds, sv \in SessionSaves : AttemptOther(t, sv)
    \/ \E t \in SessionIds, sv \in SessionSaves : BackoffEnds(t, sv)
    \/ \E t \in SessionIds : InfoReturns(t)
    \/ \E t \in SessionIds, q \in Pages, c \in Counts, sv \in SessionSaves :
          Fits(t, q) /\ PageReturns(t, q, c, sv)
    \/ \E t \in SessionIds, q \in Pages, sv \in SessionSaves :
          Fits(t, q) /\ SubReturns(t, q, sv)
    \/ \E t \in SessionIds, q \in Pages : FeedReturns(t, q)
    \/ \E t \in SessionIds, sv \in SessionSaves : BroadcastEnds(t, sv)
    \/ \E t \in SessionIds, sv \in SessionSaves : SleepEnds(t, sv)
    \/ \E t \in SessionIds : TaskCancelled(t)

SpecSession == Init /\ [][NextSession]_vars

\* The history fetch of one session with a collection that takes every
\* document: a remote source with a first page of five comments (declared
\* total 0, 5 or 6) and with sub-comment pages that are empty, short or full
\* (comments 3..22).
BackfillTopPages == {<<>>, <<5, 4, 3, 2, 1>>}
BackfillCounts == {0, 5, 6}
FullSubPage == [k \in 1..SubPageSize |-> k + 2]
BackfillSubPages == {<<>>, <<3>>, FullSubPage}
BackfillSaves == {sv \in SaveOutcomes : ~sv.raises /\ sv.skipped = {}}

NextBackfill ==
    \/ \E fsc \in BOOLEAN : tasks[1].pc = "none" /\ StartMonitor(1, fsc)
    \/ TaskFirstStep(1)
    \/ AttemptRetryable(1)
    \/ \E sv \in BackfillSaves : AttemptOther(1, sv)
    \/ \E sv \in BackfillSaves : BackoffEnds(1, sv)
    \/ InfoReturns(1)
    \/ \E q \in BackfillTopPages, c \in BackfillCounts, sv \in BackfillSaves :
          /\ Len(tasks[1].all_replies) + Len(q) <= MaxBackfillTop
          /\ PageReturns(1, q, c, sv)
    \/ \E q \in BackfillSubPages, sv \in BackfillSaves :
          /\ Len(q) = SubPageSize => tasks[1].sub_page <= MaxSubPages
          /\ SubReturns(1, q, sv)
    \/ \E q \in CtlPages : FeedReturns(1, q)
    \/ \E sv \in BackfillSaves : BroadcastEnds(1, sv)
    \/ \E sv \in BackfillSaves : SleepEnds(1, sv)

SpecBackfill == Init /\ [][NextBackfill]_vars

\* ----------------------------------------------------------- hub harness
\* list.remove(x): the first occurrence goes, the later items move up.
Remove(conns, x) ==
    LET k == CHOOSE a \in 1..Len(conns) :
                 conns[a] = x /\ \A b \in 1..(a - 1) : conns[b] # x
    IN SubSeq(conns, 1, k - 1) \o SubSeq(conns, k + 1, Len(conns))

\* `for connection in self.active_connections:` asks the list iterator for
\* its next item: the item at the iterator's index in the list as it is now,
\* on which send_json is called; the call returns when the index is past the
\* end of the list.
ForNext(b, conns) ==
    IF b.idx < Len(conns)
    THEN LET c == conns[b.idx + 1] IN
         [b EXCEPT !.pc = "send", !.conn = c, !.idx = @ + 1,
                   !.sent[c] = IF @ < 2 THEN @ + 1 ELSE 2]
    ELSE [b EXCEPT !.pc = "returned", !.conn = None]

\* A variant without the try/except around send_json.
MutOnSendRaisedPropagates(b, conns) == [b EXCEPT !.pc = "raised", !.conn = None]

\* `except Exception: pass`, then the next iteration.
OnSendRaised(b, conns) == ForNext(b, conns)

\* websocket_endpoint up to the end of manager.connect: accept, append.
Connect ==
    /\ accepted < MaxSockets
    /\ accepted' = accepted + 1
    /\ active_connections' = Append(active_connections, accepted + 1)
    /\ UNCHANGED <<bcast, bcasts, poolVars, cycleVars, monVars, sinkVars>>

\* receive_text raises WebSocketDisconnect in the endpoint of ws:
\* manager.disconnect(ws).
Disconnect(ws) ==
    /\ ws \in RpidSet(active_connections)
    /\ active_connections' = Remove(active_connections, ws)
    /\ bcast' = IF bcast.pc = "send" THEN [bcast EXCEPT !.gone = @ \cup {ws}] ELSE bcast
    /\ UNCHANGED <<accepted, bcasts, poolVars, cycleVars, monVars, sinkVars>>

\* A caller awaits manager.broadcast(message): up to the first send_json.
BroadcastBegins ==
    /\ bcast.pc \in {"idle", "returned", "raised"}
    /\ bcasts < MaxBroadcasts
    /\ bcasts' = bcasts + 1
    /\ bcast' = ForNext([NoBroadcast EXCEPT !.start = RpidSet(active_connections)],
                        active_connections)
    /\ UNCHANGED <<active_connections, accepted, poolVars, cycleVars, monVars, sinkVars>>

\* send_json returns.
SendReturns ==
    /\ bcast.pc = "send"
    /\ bcast' = ForNext(bcast, active_connections)
    /\ UNCHANGED <<active_connections, accepted, bcasts, poolVars, cycleVars, monVars, sinkVars>>

\* send_json raises an Exception (the peer is gone).
SendRaises ==
    /\ bcast.pc = "send"
    /\ bcast' = OnSendRaised([bcast EXCEPT !.failed = @ \cup {bcast.conn}],
                             active_connections)
    /\ UNCHANGED <<active_connections, accepted, bcasts, poolVars, cycleVars, monVars, sinkVars>>

InitHub ==
    /\ ParkedPool
    /\ ParkedCycle
    /\ ParkedMonitor
    /\ ParkedHub
    /\ ParkedSink

NextHub ==
    \/ Connect
    \/ \E ws \in Sockets : Disconnect(ws)
    \/ BroadcastBegins
    \/ SendReturns
    \/ SendRaises

SpecHub == InitHub /\ [][NextHub]_vars

\* ---------------------------------------------------------- sink harness
\* A variant that inserts a new document whatever the collection holds.
MutUpdateOneInserts(coll, doc) == coll \cup {doc}

\* collection.update_one({"rpid": doc.rpid}, {"$set": doc}, upsert=True): a
\* document with that rpid gets the fields of doc, and doc is inserted when
\* there is none.
UpdateOne(coll, doc) ==
    IF \E d \in coll : d.rpid = doc.rpid
    THEN LET d == CHOOSE x \in coll : x.rpid = doc.rpid IN (coll \ {d}) \cup {doc}
    ELSE coll \cup {doc}

\* The for loop of save_comments_to_mongodb from item k on; the items at the
\* positions in failing raise in the try block and are skipped. s holds the
\* collection, the clock and the record of the last writes.
RECURSIVE SaveLoop(_, _, _, _)
SaveLoop(s, items, k, failing) ==
    IF k > Len(items) THEN s
    ELSE IF k \in failing THEN SaveLoop(s, items, k + 1, failing)
    ELSE LET c == items[k]
             doc == [rpid |-> c.rpid, message |-> c.message, fetched_at |-> s.utcnow]
         IN SaveLoop([collection |-> UpdateOne(s.collection, doc),
                      utcnow |-> s.utcnow + 1,
                      latest |-> [s.latest EXCEPT ![c.rpid] = doc]],
                     items, k + 1, failing)

\* save_comments_to_mongodb(items, ...) returns: nothing is done for an empty
\* list.
SaveCommentsToMongodb(items, failing) ==
    /\ utcnow + Len(items) <= MaxWrites + 1
    /\ LET s == SaveLoop([collection |-> collection, utcnow |-> utcnow, latest |-> latest],
                         items, 1, failing)
       IN /\ collection' = s.collection
          /\ utcnow' = s.utcnow
          /\ latest' = s.latest
    /\ UNCHANGED <<poolVars, cycleVars, monVars, hubVars>>

\* collection.create_index raises (the server is unreachable): the call
\* raises before the loop.
SaveCommentsRaises(items) ==
    /\ items # <<>>
    /\ UNCHANGED vars

InitSink ==
    /\ ParkedPool
    /\ ParkedCycle
    /\ ParkedMonitor
    /\ ParkedHub
    /\ ParkedSink

NextSink ==
    \/ \E items \in SeqsUpTo(Comments, MaxBatch), failing \in SUBSET (1..MaxBatch) :
          SaveCommentsToMongodb(items, failing)
    \/ \E items \in SeqsUpTo(Comments, MaxBatch) : SaveCommentsRaises(items)

SpecSink == InitSink /\ [][NextSink]_vars

\* ------------------------------------------------- claims on the pool
AllRetryableBefore(k) == \A j \in 1..(k - 1) : hlog[j].kind = "retryable"

\* C1: with N >= 1 credentials and a retryable failure on every attempt, a
\* call that has ended made exactly N attempts and raised the error of the
\* N-th attempt; a call in progress never made more than N attempts.
C1_ExhaustionRaisesLast ==
    /\ hpool.total >= 1 => Len(hlog) <= hpool.total
    /\ (FrameDone(hcall) /\ hpool.total >= 1 /\ AllRetryableBefore(Len(hlog) + 1))
         => /\ Len(hlog) = hpool.total
            /\ hcall.i = hpool.total
            /\ hcall.at = "raised"
            /\ hcall.out = hlog[hpool.total].val

\* A pool of three, three retryable failures with different errors, ended.
C1_Witness ==
    /\ hpool.total = 3
    /\ FrameDone(hcall)
    /\ Len(hlog) = 3
    /\ AllRetryableBefore(4)
    /\ hlog[1].val # hlog[3].val
    /\ hcall.out = hlog[3].val

\* C2: when attempt k succeeds after k-1 retryable failures, the call made
\* exactly k attempts, has returned the value of attempt k, and attempt k is
\* the last attempt of the call.
C2_SuccessReturnsKth ==
    \A k \in 1..Len(hlog) :
        (hlog[k].kind = "ok" /\ AllRetryableBefore(k))
          => /\ k = Len(hlog)
             /\ k <= hpool.total
             /\ hcall.i = k
             /\ hcall.at = "returned"
             /\ hcall.out = hlog[k].val

\* Two retryable failures, then success on the third of three credentials.
C2_Witness ==
    /\ hpool.total = 3
    /\ Len(hlog) = 3
    /\ AllRetryableBefore(3)
    /\ hlog[3].kind = "ok"
    /\ hcall.at = "returned"

\* C3: an attempt that fails with an error that is not retryable is the last
\* attempt of the call, and the call has raised that error, whatever the
\* number of credentials not yet tried.
C3_OtherErrorFailsFast ==
    \A k \in 1..Len(hlog) :
        hlog[k].kind = "other"
          => /\ k = Len(hlog)
             /\ hcall.i = k
             /\ hcall.at = "raised"
             /\ hcall.out = hlog[k].val

\* The first of three credentials fails with a non-retryable error while a
\* retryable error is not what ended the call.
C3_Witness ==
    /\ hpool.total = 3
    /\ Len(hlog) = 1
    /\ hlog[1].kind = "other"
    /\ hcall.at = "raised"
    /\ hpool.iterator = 2

\* C4: a call on a pool without credentials ends in the configuration error
\* of get_next, with no attempt made; it never returns.
C4_EmptyPoolRaises ==
    (hpool.total = 0 /\ hcalls > 0)
      => /\ hcall.at = "raised"
         /\ hcall.out = NoCredentials
         /\ hlog = <<>>

\* ------------------------------------------------ claims on the cycle
\* The length of the longest prefix of the page with every rpid above h.
PrefixLenAbove(page, h) ==
    CHOOSE k \in 0..Len(page) :
        /\ \A j \in 1..k : page[j] > h
        /\ k < Len(page) => page[k + 1] <= h

\* C6: the new items of a cycle are exactly the longest prefix of the page
\* whose rpids all exceed the high-water mark; if it is non-empty the mark
\* becomes the larger of the old mark and the largest rpid of the prefix and
\* one batch is broadcast, the prefix in reversed feed order; if it is empty
\* the mark stays and nothing is broadcast.
C6_NewIsLongestPrefix ==
    cyDone =>
      LET k == PrefixLenAbove(cyPage, cyH0) IN
        /\ cyNew = SubSeq(cyPage, 1, k)
        /\ k = 0 => cyH = cyH0 /\ cyBatch = <<>>
        /\ k > 0 =>
             /\ \A j \in 1..k : cyH >= cyPage[j]
             /\ cyH >= cyH0
             /\ cyH = cyH0 \/ \E j \in 1..k : cyH = cyPage[j]
             /\ Len(cyBatch) = 1
             /\ Len(cyBatch[1]) = k
             /\ \A j \in 1..k : cyBatch[1][j] = cyPage[k + 1 - j]

\* The page [108,107,106,90] with mark 100: new [108,107,106], mark 108,
\* batch [106,107,108].
C6_Witness ==
    /\ cyDone
    /\ cyH0 = 100
    /\ cyPage = <<108, 107, 106, 90>>
    /\ cyNew = <<108, 107, 106>>
    /\ cyH = 108
    /\ cyBatch = << <<106, 107, 108>> >>

\* ------------------------------------------------ claims on the monitor
IncrementalPcs == {"feed", "bc_new", "bc_warning", "cycle_sleep"}

\* The credential that cyclically follows credential c in the pool.
CyclicNext(c) == IF c = hpool.total THEN 1 ELSE c + 1

\* C20: the rotation is state of the pool, not of the call. The credential of
\* an attempt is the cyclic successor of the credential of the previous
\* attempt on the pool, whether that attempt was made by the same call or by
\* the call before; the attempts of one call use pairwise distinct
\* credentials and are at most as many as the pool holds.
C20_RotationIsShared ==
    [][/\ (hcall'.at = "call" /\ hlog' # <<>>) =>
             hcall'.cred = CyclicNext(hlog'[Len(hlog')].cred)
       /\ (hcalls' = hcalls + 1 /\ hlog # <<>> /\ hcall'.at = "call") =>
             hcall'.cred = CyclicNext(hlog[Len(hlog)].cred)
       /\ Len(hlog') <= hpool.total
       /\ \A a, b \in 1..Len(hlog') : a # b => hlog'[a].cred # hlog'[b].cred]_vars

\* The second call on a pool of three began with the third credential (the
\* first call used the first two) and went on to the first.
C20_Witness ==
    /\ hpool.total = 3
    /\ hcalls = 2
    /\ Len(hlog) = 2
    /\ hlog[1].cred = 3 /\ hlog[1].kind = "retryable"
    /\ hlog[2].cred = 1

\* C5: no step a task takes in its incremental phase (a feed fetch that
\* returns a page of new, old or unordered comments, or fails, a broadcast,
\* a save, a sleep) lowers monitor_state.last_rpid.
C5_HighWaterMarkMonotone ==
    [][\A t \in TaskIds :
          (tasks[t].pc \in IncrementalPcs /\ tasks'[t] # tasks[t])
            => last_rpid' >= last_rpid]_vars

\* A cycle has just classified the page [3, 1] with mark 2: the mark rose
\* to 3 over a page that also held an older comment below the mark.
C5_Witness ==
    \E t \in TaskIds :
        /\ tasks[t].pc = "bc_new"
        /\ tasks[t].replies = <<3, 1>>
        /\ tasks[t].new = <<3>>
        /\ tasks[t].delivered[2] = 1
        /\ last_rpid = 3

\* C7: in one session (one task), no rpid is handed to the hub in a
\* "new_comments" event more than once, the snapshot included.
C7_ExactlyOnceDelivery ==
    \A t \in TaskIds : \A r \in Rpids : tasks[t].delivered[r] <= 1

\* C8: at most one fetch_task task is alive (created, not ended, no
\* cancellation pending) at any time.
C8_AtMostOneEngine ==
    Cardinality({t \in TaskIds : Runnable(t)}) <= 1

\* C9: when a stop request that found the engine in its inter-cycle sleep
\* returns "stopped", the running flag is false and no task is alive.
C9_StopMidSleepStopsSession ==
    [][\A h \in StopIds :
          (stops[h].midSleep /\ stops[h].pc = "bc_stopped" /\ stops'[h].pc = "returned")
            => (~running' /\ \A t \in TaskIds : tasks'[t].pc \in {"none", "done"})]_vars

\* C10: a task whose get_video_info call failed on every credential is
\* broadcasting the error status or has ended, and stays so (it fetches no
\* page and runs no cycle); when it ends after that broadcast the running
\* flag is false; and no start request made while the flag is false is
\* answered already_running.
C10_InitFailureStopsSession ==
    [][/\ \A t \in TaskIds :
            /\ tasks'[t].infoFail > 0 => tasks'[t].pc \in {"bc_error", "done"}
            /\ tasks[t].infoFail > 0 => tasks'[t].infoFail = tasks[t].infoFail
            /\ (tasks[t].infoFail > 0 /\ tasks[t].pc = "bc_error" /\ tasks'[t].pc = "done"
                  /\ ~tasks'[t].cancelled) => ~running'
       /\ (~running /\ reply' = "already_running") => reply = "already_running"]_vars

\* Both credentials of the first session failed on get_video_info, its task
\* ended by itself, and a later start request was accepted.
C10_Witness ==
    /\ tasks[1].infoFail = 2
    /\ tasks[1].pc = "done"
    /\ ~tasks[1].cancelled
    /\ tasks[2].pc = "created"
    /\ reply = "started"
    /\ running

\* ------------------------------------------- claims on the error handling
\* The call of get_comments_lazy raises to the loop body of task t in this
\* step: func raised a non-retryable error, or the last credential's backoff
\* ended.
FeedCallRaises(t) ==
    /\ tasks[t].pc = "feed"
    /\ tasks'[t].pc # "feed"
    /\ \E sv \in SessionSaves : AttemptOther(t, sv) \/ BackoffEnds(t, sv)

\* C11: an error of the fetch of an incremental cycle (every credential
\* failing included) is not fatal: the task goes to the warning broadcast
\* with last_rpid and running as they were, from the warning broadcast to the
\* inter-cycle sleep, again with both unchanged, and from the sleep, unless
\* it was stopped, to the fetch of the next cycle.
C11_FetchErrorNotFatal ==
    [][\A t \in SessionIds :
          /\ FeedCallRaises(t) =>
                /\ tasks'[t].pc = "bc_warning"
                /\ last_rpid' = last_rpid
                /\ running' = running
          /\ (tasks[t].pc = "bc_warning" /\ tasks'[t].pc # "bc_warning" /\ ~tasks[t].cancel) =>
                /\ tasks'[t].pc = "cycle_sleep"
                /\ last_rpid' = last_rpid
                /\ running' = running
          /\ (tasks[t].pc = "cycle_sleep" /\ tasks'[t].pc # "cycle_sleep"
                /\ ~tasks[t].cancel /\ running) =>
                /\ tasks'[t].pc = "feed"
                /\ tasks'[t].f.at = "call"
                /\ running']_vars

\* C16: the comments a cycle broadcast as new, which last_rpid covers from
\* then on, are in the collection once the cycle is over, whether the task
\* went on to save them, was cancelled in the broadcast, or the save failed.
C16_NewItemsAreStored ==
    [][\A t \in TaskIds :
          (tasks[t].pc = "bc_new" /\ tasks'[t].pc # "bc_new") =>
              \A r \in RpidSet(tasks[t].new) : r <= last_rpid' /\ r \in sink']_vars

\* The history fetch stored and showed comment 3 alone, and a later fetch of
\* the feed failed: the task is in the warning broadcast, the session runs.
C11_Witness ==
    /\ tasks[1].pc = "bc_warning"
    /\ running
    /\ last_rpid = 3
    /\ 3 \in sink
    /\ tasks[1].delivered = [r \in Rpids |-> IF r = 3 THEN 1 ELSE 0]

\* The working set of the history fetch of task t, once it is complete:
\* all_replies holds the top-level comments and the fetched sub-comments.
BackfillMax(t) ==
    IF tasks[t].all_replies = <<>> THEN 0 ELSE MaxRpid(tasks[t].all_replies)

\* C12: a history fetch that completed (the task is in its last broadcast,
\* "saved" or "no history") and was not stopped goes on to the incremental
\* loop, and when the task enters the loop last_rpid is the largest rpid of
\* the working set of that task, 0 for an empty one.
C12_BackfillSetsHighWaterMark ==
    [][\A t \in TaskIds :
          /\ (tasks[t].pc \in {"bc_saved", "bc_nohistory"} /\ tasks'[t].pc # tasks[t].pc
                /\ ~tasks[t].cancel /\ running) => tasks'[t].pc = "feed"
          /\ (tasks[t].pc \in {"bc_saved", "bc_nohistory"} /\ tasks'[t].pc = "feed")
                => last_rpid' = BackfillMax(t)]_vars

\* --------------------------------------------------- claims on the hub
\* C13: manager.broadcast never raises to its caller; when no client
\* disconnected during the call, send_json was called once on every
\* registered websocket whichever of them failed; and no step of broadcast
\* changes active_connections (a websocket whose send failed stays).
C13_BroadcastSwallowsFailures ==
    [][/\ bcast'.pc # "raised"
       /\ (bcast'.pc = "returned" /\ bcast'.gone = {}) =>
             \A ws \in bcast'.start : bcast'.sent[ws] = 1
       /\ (bcast'.pc # bcast.pc \/ bcast'.idx # bcast.idx \/ bcast'.failed # bcast.failed) =>
             active_connections' = active_connections]_vars

\* A broadcast to three clients returned after the send to the first failed.
C13_Witness ==
    /\ bcast.pc = "returned"
    /\ bcast.failed = {1}
    /\ bcast.start = {1, 2, 3}
    /\ bcast.gone = {}
    /\ bcast.sent = [ws \in Sockets |-> 1]
    /\ active_connections = <<1, 2, 3>>

\* C19: when a broadcast call has returned, send_json was called exactly
\* once on every websocket that was registered from its beginning to its
\* end, whatever connects and disconnects happened meanwhile.
C19_RegisteredSentExactlyOnce ==
    bcast.pc = "returned" =>
        \A ws \in bcast.start \ bcast.gone : bcast.sent[ws] = 1

\* --------------------------------------------------- claims on the sink
\* A collection without the times of the writes.
Content(coll) == {[rpid |-> d.rpid, message |-> d.message] : d \in coll}

\* C15: after any sequence of calls of save_comments_to_mongodb the
\* collection holds at most one document per rpid, and its documents are
\* exactly the last document written for each rpid (so the earlier writes of
\* an rpid leave no trace: writing an item twice gives the collection that
\* writing it the second time alone gives); a call that writes for every rpid
\* the message the collection already holds changes no content.
C15_UpsertIdempotent ==
    [][/\ \A d, e \in collection' : d.rpid = e.rpid => d = e
       /\ collection' = {latest'[r] : r \in {x \in 1..MaxSinkRpid : latest'[x] # NoDocument}}
       /\ (\A r \in 1..MaxSinkRpid :
              latest[r] # NoDocument /\ latest'[r] # NoDocument /\ latest'[r].message = latest[r].message)
             => Content(collection') = Content(collection)]_vars

\* Comment 1 was written, then comment 2, then comment 1 again with another
\* message: two documents, the one of comment 1 with the later message.
C15_Witness ==
    collection = {[rpid |-> 1, message |-> 2, fetched_at |-> 3],
                  [rpid |-> 2, message |-> 1, fetched_at |-> 2]}

\* ------------------------------------------- claims on the history fetch
\* The positions of a task inside the history fetch, before its end.
BackfillPcs == {"bc_clear", "bc_connected", "bc_loading", "page", "page_sleep",
                "bc_subs", "sub", "sub_sleep"}

\* How often comment r occurs in a list.
Count(r, q) == Cardinality({k \in 1..Len(q) : q[k] = r})

\* The task's call of get_comments raises to the page loop in this step.
PageCallRaises(t) ==
    /\ tasks[t].pc = "page"
    /\ tasks'[t].pc # "page"
    /\ \E sv \in BackfillSaves : AttemptOther(t, sv) \/ BackoffEnds(t, sv)

FiveOfFiveStored ==
    /\ tasks[1].pc = "bc_snapshot"
    /\ tasks[1].page = 1
    /\ Len(tasks[1].all_replies) = 5
    /\ sink = 1..5
    /\ last_rpid = 5

SubPagesDeclared(r) == (RCount(r) + SubPageSize - 1) \div SubPageSize

\* C18: the history fetch makes a bounded number of calls whatever the
\* remote source answers: no page beyond max_pages is fetched, and a
\* sub-comment loop fetches no page beyond those that hold the declared
\* replies of its comment and the one after them.
C18_BackfillCallsBounded ==
    \A t \in TaskIds :
        /\ tasks[t].pc = "page" => tasks[t].page <= max_pages
        /\ tasks[t].pc = "sub" =>
              tasks[t].sub_page <= SubPagesDeclared(tasks[t].all_replies[tasks[t].idx]) + 1

====
